---- MODULE Spec2Model ----
(***************************************************************************)
(* Model of locustfile.py: the TcpClient simulated user of a load test.    *)
(*                                                                         *)
(* Every simulated user owns one socket (self.sock).  The harness calls    *)
(* on_start once, then connect_to_server any number of times, then         *)
(* on_stop.  connect_to_server blocks in time.sleep, which is where other  *)
(* users run, so it is modelled as two steps: the part up to the sleep     *)
(* (connect_to_server_call) and the part after it                          *)
(* (connect_to_server_return).  The listener on 127.0.0.1:2345 is the      *)
(* environment: it may start and stop accepting at any time.               *)
(*                                                                         *)
(* Socket semantics are those of CPython on Linux: connect on a closed     *)
(* socket raises OSError (EBADF), connect to a port nobody listens on      *)
(* raises ConnectionRefusedError and leaves the socket object open,        *)
(* close() is idempotent and does not raise.                               *)
(***************************************************************************)
EXTENDS Integers, FiniteSets, Sequences, TLC

\* ---------------------------------------------------------------- bounds
NumUsers == 2          \* simulated users spawned by the harness
MaxCycles == 2         \* cap on the per-session counter of completed cycles

Users == 1..NumUsers

\* ------------------------------------------------------ program constants
MinSleep == 1          \* random.randint(1, 10), lower end
MaxSleep == 10         \* random.randint(1, 10), upper end

Backoff == 1           \* time.sleep(1) in the except clause

VARIABLES
    pc,          \* pc[u]: where user u is in its session
    sock,        \* sock[u]: state of self.sock of user u
    accepting,   \* TRUE iff something listens on 127.0.0.1:2345
    call,        \* call[u]: what the current / last connect_to_server did
    cycles,      \* cycles[u]: completed connect-hold-close cycles
    stop_raised  \* stop_raised[u]: on_stop of user u raised

vars == <<pc, sock, accepting, call, cycles, stop_raised>>

SockStates == {"none", "open", "connected", "closed"}
PcStates == {"new", "ready", "hold", "backoff", "done", "stopped"}

\* ------------------------------------------------------ socket semantics
\* socket.socket(AF_INET, SOCK_STREAM): a fresh, unconnected socket.
NewSocket == "open"

\* sock.connect(("127.0.0.1", 2345)): "ok" or the exception it raises.
SockConnect(s, acc) ==
    IF s = "none" THEN "AttributeError"
    ELSE IF s = "closed" THEN "EBADF"
    ELSE IF s = "connected" THEN "EISCONN"
    ELSE IF acc THEN "ok"
    ELSE "ECONNREFUSED"

\* sock.close(): the state it leaves the socket in (idempotent).
SockCloseLeak(s) == s
SockClose(s) == "closed"

\* sock.close() raises only when self.sock was never assigned.
SockCloseRaises(s) == s = "none"

\* The exceptions that are socket.error (= OSError) instances.
SocketErrors == {"EBADF", "EISCONN", "ECONNREFUSED"}

\* except socket.error as e
CatchesRefusedOnly(e) == e = "ECONNREFUSED"
Catches(e) == e \in SocketErrors

\* random.randint(1, 10): the values it can return.
HoldDurationsFromZero == 0..MaxSleep
HoldDurations == MinSleep..MaxSleep

\* self.sock = x : an instance attribute, one per user.
SetSockShared(u, x) == [v \in Users |-> x]
SetSock(u, x) == [sock EXCEPT ![u] = x]

\* Bookkeeping of one invocation of connect_to_server, at its entry.
NewCall ==
    [attempts |-> 0, sleeps |-> 0, closes |-> 0, elapsed |-> 0, dur |-> 0,
     observed |-> FALSE, raised |-> FALSE, path |-> "none", tgt |-> FALSE]

\* ------------------------------------------------------------------ Init
Init ==
    /\ pc = [u \in Users |-> "new"]
    /\ sock = [u \in Users |-> "none"]
    /\ accepting \in BOOLEAN
    /\ call = [u \in Users |-> NewCall]
    /\ cycles = [u \in Users |-> 0]
    /\ stop_raised = [u \in Users |-> FALSE]

\* --------------------------------------------------------------- actions
\* def on_start(self): self.sock = socket.socket(...)
on_start(u) ==
    /\ pc[u] = "new"
    /\ pc' = [pc EXCEPT ![u] = "ready"]
    /\ sock' = SetSock(u, NewSocket)
    /\ UNCHANGED <<accepting, call, cycles, stop_raised>>

\* Variant of on_stop that forgets the close.
on_stop_noclose(u) ==
    /\ pc[u] \in {"ready", "done"}
    /\ pc' = [pc EXCEPT ![u] = "stopped"]
    /\ stop_raised' = [stop_raised EXCEPT ![u] = SockCloseRaises(sock[u])]
    /\ UNCHANGED <<sock, accepting, call, cycles>>

\* def on_stop(self): self.sock.close()
on_stop(u) ==
    /\ pc[u] \in {"ready", "done"}
    /\ pc' = [pc EXCEPT ![u] = "stopped"]
    /\ stop_raised' = [stop_raised EXCEPT ![u] = SockCloseRaises(sock[u])]
    /\ sock' = IF SockCloseRaises(sock[u]) THEN sock
               ELSE SetSock(u, SockClose(sock[u]))
    /\ UNCHANGED <<accepting, call, cycles>>

\* Variant of connect_to_server_call that builds a new socket at entry.
connect_to_server_call_fresh(u) ==
    /\ pc[u] \in {"ready", "done"}
    /\ cycles[u] < MaxCycles
    /\ LET r == SockConnect(NewSocket, accepting)
           c == [NewCall EXCEPT !.attempts = 1, !.tgt = accepting]
       IN  IF r = "ok"
           THEN \E d \in HoldDurations :
                  /\ pc' = [pc EXCEPT ![u] = "hold"]
                  /\ sock' = SetSock(u, "connected")
                  /\ call' = [call EXCEPT ![u] =
                                [c EXCEPT !.observed = TRUE, !.path = "ok",
                                          !.dur = d]]
           ELSE /\ pc' = [pc EXCEPT ![u] =
                          IF Catches(r) THEN "backoff" ELSE "done"]
                /\ sock' = SetSock(u, NewSocket)
                /\ call' = [call EXCEPT ![u] =
                              [c EXCEPT !.path = "err",
                                        !.raised = ~Catches(r),
                                        !.dur = IF Catches(r) THEN Backoff
                                                ELSE 0]]
    /\ UNCHANGED <<accepting, cycles, stop_raised>>

\* connect_to_server, from its entry to the time.sleep it blocks in:
\* the connect, then either the hold (try body) or the backoff (except).
\* An exception the except clause does not catch ends the invocation.
connect_to_server_call(u) ==
    /\ pc[u] \in {"ready", "done"}
    /\ cycles[u] < MaxCycles
    /\ LET r == SockConnect(sock[u], accepting)
           c == [NewCall EXCEPT !.attempts = 1, !.tgt = accepting]
       IN  IF r = "ok"
           THEN \E d \in HoldDurations :
                  /\ pc' = [pc EXCEPT ![u] = "hold"]
                  /\ sock' = SetSock(u, "connected")
                  /\ call' = [call EXCEPT ![u] =
                                [c EXCEPT !.observed = TRUE, !.path = "ok",
                                          !.dur = d]]
           ELSE /\ pc' = [pc EXCEPT ![u] =
                          IF Catches(r) THEN "backoff" ELSE "done"]
                /\ sock' = sock
                /\ call' = [call EXCEPT ![u] =
                              [c EXCEPT !.path = "err",
                                        !.raised = ~Catches(r),
                                        !.dur = IF Catches(r) THEN Backoff
                                                ELSE 0]]
    /\ UNCHANGED <<accepting, cycles, stop_raised>>

\* Variant of connect_to_server_return that also backs off after the hold.
connect_to_server_return_both(u) ==
    /\ pc[u] \in {"hold", "backoff"}
    /\ pc' = [pc EXCEPT ![u] = "done"]
    /\ IF pc[u] = "hold"
       THEN /\ sock' = SetSock(u, SockClose(sock[u]))
            /\ call' = [call EXCEPT ![u].elapsed = @ + call[u].dur + Backoff,
                                    ![u].sleeps = @ + 2,
                                    ![u].closes = @ + 1]
            /\ cycles' = [cycles EXCEPT ![u] = @ + 1]
       ELSE /\ sock' = sock
            /\ call' = [call EXCEPT ![u].elapsed = @ + call[u].dur,
                                    ![u].sleeps = @ + 1]
            /\ cycles' = cycles
    /\ UNCHANGED <<accepting, stop_raised>>

\* connect_to_server, from the end of its time.sleep to its return:
\* after the hold the socket is closed, after the backoff nothing is done.
connect_to_server_return(u) ==
    /\ pc[u] \in {"hold", "backoff"}
    /\ pc' = [pc EXCEPT ![u] = "done"]
    /\ IF pc[u] = "hold"
       THEN /\ sock' = SetSock(u, SockClose(sock[u]))
            /\ call' = [call EXCEPT ![u].elapsed = @ + call[u].dur,
                                    ![u].sleeps = @ + 1,
                                    ![u].closes = @ + 1]
            /\ cycles' = [cycles EXCEPT ![u] = @ + 1]
       ELSE /\ sock' = sock
            /\ call' = [call EXCEPT ![u].elapsed = @ + call[u].dur,
                                    ![u].sleeps = @ + 1]
            /\ cycles' = cycles
    /\ UNCHANGED <<accepting, stop_raised>>

\* The peer starts listening on 127.0.0.1:2345.
target_listen ==
    /\ ~accepting
    /\ accepting' = TRUE
    /\ UNCHANGED <<pc, sock, call, cycles, stop_raised>>

\* The peer stops listening.
target_shutdown ==
    /\ accepting
    /\ accepting' = FALSE
    /\ UNCHANGED <<pc, sock, call, cycles, stop_raised>>

Next ==
    \/ \E u \in Users : on_start(u)
    \/ \E u \in Users : connect_to_server_call(u)
    \/ \E u \in Users : connect_to_server_return(u)
    \/ \E u \in Users : on_stop(u)
    \/ target_listen
    \/ target_shutdown

Spec == Init /\ [][Next]_vars

TypeOK ==
    /\ pc \in [Users -> PcStates]
    /\ sock \in [Users -> SockStates]
    /\ accepting \in BOOLEAN
    /\ cycles \in [Users -> 0..MaxCycles]
    /\ stop_raised \in [Users -> BOOLEAN]
    /\ \A u \in Users : call[u].path \in {"none", "ok", "err"}

\* ------------------------------------------------------------ properties

\* C1: every invocation of connect_to_server that has returned closed the
\* user's socket exactly once, on the success path and on the error path.
C1_ClosedExactlyOncePerCall ==
    \A u \in Users : pc[u] = "done" => call[u].closes = 1

\* C2: every invocation made while the target was accepting was observed by
\* the peer, blocked between 1 and 10 seconds and left the socket closed.
C2_AcceptingTargetIsReached ==
    \A u \in Users :
        (pc[u] = "done" /\ call[u].tgt) =>
            /\ call[u].observed
            /\ call[u].elapsed \in 1..10
            /\ sock[u] = "closed"

\* C3: after on_start, on_stop leaves the socket closed and does not raise,
\* whatever happened in between (no task, a failed connect, a task that
\* already closed the socket).
C3_StopAlwaysCloses ==
    \A u \in Users :
        pc[u] = "stopped" => (sock[u] = "closed" /\ ~stop_raised[u])

\* One user stopped after its task had already closed the socket (double
\* close), another stopped after a task whose connect failed.
C3_Witness ==
    \E u, v \in Users :
        /\ pc[u] = "stopped" /\ call[u].path = "ok" /\ call[u].closes = 1
        /\ pc[v] = "stopped" /\ call[v].path = "err" /\ cycles[v] = 0

\* C4: an invocation whose connect raised a socket error returns normally
\* and has blocked for at least the one-second backoff.
C4_ErrorPathReturnsAfterBackoff ==
    \A u \in Users :
        (pc[u] = "done" /\ call[u].path = "err") =>
            (~call[u].raised /\ call[u].elapsed >= 1)

\* An invocation on an already closed socket (EBADF) has returned.
C4_Witness ==
    \E u \in Users :
        /\ pc[u] = "done" /\ call[u].path = "err" /\ sock[u] = "closed"
        /\ call[u].attempts = 1 /\ call[u].elapsed = 1

\* C5: an invocation made while the target port was closed returns without
\* an exception, after the 1-second backoff, with the socket closed.
C5_RefusedLeavesSocketClosed ==
    \A u \in Users :
        (pc[u] = "done" /\ call[u].path = "err" /\ ~call[u].tgt) =>
            /\ ~call[u].raised
            /\ call[u].elapsed = 1
            /\ sock[u] = "closed"

\* C6: on the success path the socket is connected and not yet closed during
\* the whole hold, and it is closed, once, after the hold, when the
\* invocation has returned.
C6_OpenDuringHoldClosedAfter ==
    \A u \in Users :
        /\ pc[u] = "hold" =>
              /\ sock[u] = "connected"
              /\ call[u].closes = 0
              /\ call[u].path = "ok"
        /\ (pc[u] = "done" /\ call[u].path = "ok") =>
              /\ sock[u] = "closed"
              /\ call[u].closes = 1
              /\ call[u].sleeps = 1

\* One user is in its hold while another has completed a successful call.
C6_Witness ==
    \E u, v \in Users :
        /\ pc[u] = "hold" /\ sock[u] = "connected"
        /\ pc[v] = "done" /\ call[v].path = "ok" /\ sock[v] = "closed"

\* C7: the hold duration of a successful connect is an integer number of
\* seconds between 1 and 10, and it is the time the invocation blocked.
C7_HoldBetweenOneAndTen ==
    \A u \in Users :
        call[u].path = "ok" =>
            /\ call[u].dur \in 1..10
            /\ pc[u] = "done" => call[u].elapsed = call[u].dur

\* Both ends of the range are drawn: one user holds 1 s, another 10 s.
C7_Witness ==
    \E u, v \in Users :
        /\ pc[u] = "hold" /\ call[u].dur = 1
        /\ pc[v] = "hold" /\ call[v].dur = 10

\* A step of user u: one of its hooks or a step of its task.
UserStep(u) ==
    \/ on_start(u)
    \/ connect_to_server_call(u)
    \/ connect_to_server_return(u)
    \/ on_stop(u)

\* C8: a step of one user leaves every other user's socket state unchanged,
\* and a connect fails against an accepting target only when the user's own
\* earlier cycle closed its socket.
C8_UsersOwnTheirSockets ==
    /\ [][\A u \in Users :
            UserStep(u) => \A v \in Users \ {u} : sock'[v] = sock[v]]_vars
    /\ [](\A u \in Users :
            (call[u].path = "err" /\ call[u].tgt) => cycles[u] >= 1)

\* One user has closed its socket and stopped while another, which has
\* never closed anything, is connected and holding.
C8_Witness ==
    \E u, v \in Users :
        /\ pc[u] = "stopped" /\ sock[u] = "closed" /\ cycles[u] = 1
        /\ pc[v] = "hold" /\ sock[v] = "connected" /\ cycles[v] = 0

\* C9: only on_start creates the socket and a closed socket stays closed;
\* a session completes at most one connect-hold-close cycle, and every
\* invocation made after it takes the error path (no connection at the
\* peer, 1-second backoff, normal return), even when the target accepts.
C9_SingleUseSocket ==
    /\ [][\A u \in Users :
            /\ (sock[u] = "none" /\ sock'[u] # "none") => on_start(u)
            /\ sock[u] = "closed" => sock'[u] = "closed"
            /\ (cycles[u] >= 1 /\ connect_to_server_call(u)) =>
                  /\ pc'[u] = "backoff"
                  /\ call'[u].path = "err"
                  /\ ~call'[u].observed
                  /\ ~call'[u].raised
                  /\ call'[u].dur = 1]_vars
    /\ [](\A u \in Users :
            /\ cycles[u] <= 1
            /\ cycles[u] >= 1 => (sock[u] = "closed" /\ pc[u] # "hold"))

\* After its one cycle a user called again while the target was accepting
\* and came back on the error path.
C9_Witness ==
    \E u \in Users :
        /\ cycles[u] = 1 /\ pc[u] = "done"
        /\ call[u].path = "err" /\ call[u].tgt
        /\ ~call[u].observed /\ call[u].elapsed = 1

\* C10: an invocation makes one connect attempt and one sleep, the hold or
\* the backoff, so one that returned normally blocked 1 to 10 seconds.
C10_OneAttemptOneSleep ==
    \A u \in Users :
        /\ pc[u] \in {"hold", "backoff"} =>
              (call[u].attempts = 1 /\ call[u].sleeps = 0)
        /\ (pc[u] = "done" /\ ~call[u].raised) =>
              /\ call[u].attempts = 1
              /\ call[u].sleeps = 1
              /\ call[u].elapsed \in 1..10
              /\ call[u].path = "ok" => call[u].elapsed = call[u].dur
              /\ call[u].path = "err" => call[u].elapsed = 1

\* One user returned after a 10-second hold, another after the backoff.
C10_Witness ==
    \E u, v \in Users :
        /\ pc[u] = "done" /\ call[u].path = "ok" /\ call[u].elapsed = 10
        /\ pc[v] = "done" /\ call[v].path = "err" /\ call[v].elapsed = 1

====
